---- MODULE Spec2Model ----
(***************************************************************************)
(* Model of the oracle_priority program (programs/poc-oracles/src/lib.rs). *)
(*                                                                         *)
(* State: the single OracleInfo account, the cluster clock, and a record   *)
(* of the last instruction executed (its arguments, its outcome and the    *)
(* account as it was before the instruction).                              *)
(*                                                                         *)
(* Numbers.  A rust_decimal Decimal is a 96-bit mantissa with a scale in   *)
(* 0..28; a u128 holds up to 2^128-1.  Neither fits TLC's 32-bit integers, *)
(* so every decimal or integer quantity q of the price path is kept as the *)
(* pair [coef, exp] with q = coef * 10^exp, coef not divisible by ten      *)
(* (zero is [0, 0]).  The pair is exact: equality of pairs is numerical    *)
(* equality, which is also what Decimal's == is.                           *)
(***************************************************************************)
EXTENDS Integers, Sequences, FiniteSets, TLC

VARIABLES
    created,      \* the OracleInfo account exists (Initialize's `init`)
    oracle_info,  \* the OracleInfo account
    clock,        \* Clock::get().unix_timestamp
    last,         \* the last instruction: [op, result, args]
    pre           \* oracle_info before the last instruction

vars == <<created, oracle_info, clock, last, pre>>

---------------------------------------------------------------------------
\* Bounds of the model

\* update_priority is tried with ranks -MaxDisabledArg .. MaxRankArg
MaxDisabledArg == 1
MaxRankArg == 3
\* the clock runs from 0 up to MaxClock
MaxClock == 31
\* largest coefficient of a decimal tried in the conversion round trip
MaxCoefArg == 12
\* decimals tried in the round trip have exponents -DecimalMaxScale .. MaxExpArg
MaxExpArg == 12

---------------------------------------------------------------------------
\* Program constants

\* pub const MAXIMUM_AGE: u64 = 30
MAXIMUM_AGE == 30
\* const WAD = 10^18, kept as its exponent
WadDigits == 18
\* let mut prices: [Option<Decimal>; 2]
PricesLen == 2
\* i8
I8Min == -128
I8Max == 127
\* rust_decimal: the largest scale of a Decimal
DecimalMaxScale == 28
\* rust_decimal: Decimal::MAX = 2^96 - 1 = 79228162514264337593543950335,
\* kept as its nine leading digits and the number of digits that follow
DecimalMaxLead == 792281625
DecimalMaxTail == 20

I8 == I8Min..I8Max

---------------------------------------------------------------------------
\* Decimal arithmetic on [coef, exp] pairs

RECURSIVE Pow10(_)
Pow10(k) == IF k <= 0 THEN 1 ELSE 10 * Pow10(k - 1)

Abs(n) == IF n < 0 THEN -n ELSE n

RECURSIVE Normal(_, _)
\* the pair of coef * 10^exp with the trailing zeros of coef moved to exp
Normal(c, e) ==
    IF c = 0 THEN [coef |-> 0, exp |-> 0]
    ELSE IF c % 10 = 0 THEN Normal(c \div 10, e + 1)
    ELSE [coef |-> c, exp |-> e]

Zero == [coef |-> 0, exp |-> 0]

\* |c| * 10^e <= Decimal::MAX, for an integer c * 10^e (e >= 0, |c| < 2^31)
FitsMantissa(c, e) ==
    IF c = 0 \/ e < DecimalMaxTail THEN TRUE
    ELSE IF e > DecimalMaxScale THEN FALSE
    ELSE Abs(c) <= DecimalMaxLead \div Pow10(e - DecimalMaxTail)

\* c \div 10^k toward zero, c >= 0 (c < 2^31 < 10^10)
TruncDiv(c, k) == IF k > 9 THEN 0 ELSE c \div Pow10(k)

Ok(v) == [tag |-> "Ok", value |-> v]
Err == [tag |-> "Err"]
Panic == [tag |-> "Panic"]

\* fn to_account(&self) -> u128: (seb * self).to_u128().unwrap()
\*   seb * self panics ("Multiplication overflowed") when the product does not
\*   fit the 96-bit mantissa at scale 0; to_u128 is None for a negative value
\*   and otherwise the value truncated to an integer; unwrap panics on None.
to_account(d) ==
    IF d.exp + WadDigits >= 0 /\ ~FitsMantissa(d.coef, d.exp + WadDigits)
    THEN Panic
    ELSE IF d.coef < 0 THEN Panic
    ELSE IF d.exp + WadDigits >= 0
         THEN Ok(Normal(d.coef, d.exp + WadDigits))
         ELSE Ok(Normal(TruncDiv(d.coef, -(d.exp + WadDigits)), 0))

\* the division of from_lamport_offset (by 10^9) used in from_account
FromAccountLamports(a) ==
    IF ~FitsMantissa(a.coef, a.exp) THEN Panic
    ELSE Ok(Normal(a.coef, a.exp - 9))

\* fn from_account(a: u128) -> Decimal: Decimal::from_u128(a).unwrap() / seb
\*   from_u128 is None when a exceeds the 96-bit mantissa; the quotient by
\*   10^18 is exact (its scale is at most 18).
from_account(a) ==
    IF ~FitsMantissa(a.coef, a.exp) THEN Panic
    ELSE Ok(Normal(a.coef, a.exp - WadDigits))

---------------------------------------------------------------------------
\* Validation

\* validation without the at-least-one-enabled check
CheckPrioritiesAllowsNoneEnabled(pyth, switchboard) ==
    IF (pyth >= 0 /\ pyth > 2) \/ (switchboard >= 0 /\ switchboard > 2) THEN FALSE
    ELSE IF pyth >= 0 /\ switchboard >= 0 /\ pyth = switchboard THEN FALSE
    ELSE TRUE

\* validation without the duplicate check
CheckPrioritiesNoDuplicateCheck(pyth, switchboard) ==
    IF pyth < 0 /\ switchboard < 0 THEN FALSE
    ELSE IF (pyth >= 0 /\ pyth > 2) \/ (switchboard >= 0 /\ switchboard > 2) THEN FALSE
    ELSE TRUE

\* fn check_oracle_priorities(pyth: i8, switchboard: i8) -> bool
check_oracle_priorities(pyth, switchboard) ==
    IF pyth < 0 /\ switchboard < 0 THEN FALSE
    ELSE IF (pyth >= 0 /\ pyth > 2) \/ (switchboard >= 0 /\ switchboard > 2) THEN FALSE
    ELSE IF pyth >= 0 /\ switchboard >= 0 /\ pyth = switchboard THEN FALSE
    ELSE TRUE

---------------------------------------------------------------------------
\* The two source readers

None == [tag |-> "None"]
Some(v) == [tag |-> "Some", value |-> v]

\* fn load_switchboard(oracle_switchboard: &AccountInfo) -> Result<Decimal>
\*   PullFeedAccountData::parse(..).unwrap() panics on a blob that does not
\*   parse, feed.value().unwrap() panics on a feed that has no value; the
\*   function has no path that returns Err.
load_switchboard(acct) ==
    IF acct.kind = "unparsable" THEN Panic
    ELSE IF acct.kind = "empty" THEN Panic
    ELSE Ok(acct.value)

\* fn load_pyth(oracle_pyth: &Account<PriceUpdateV2>, feed_id) -> Result<Decimal>
\*   get_price_no_older_than(clock, MAXIMUM_AGE, feed_id)? is Err on another
\*   feed id and on publish_time + MAXIMUM_AGE < clock.unix_timestamp;
\*   Decimal::from_i128_with_scale(price, (-exponent) as u32) panics when the
\*   scale exceeds 28, which a positive exponent cast to u32 does.
load_pyth(acct, feed_id, now) ==
    IF acct.feed_id # feed_id THEN Err
    ELSE IF acct.publish_time + MAXIMUM_AGE < now THEN Err
    ELSE IF acct.exponent > 0 \/ -acct.exponent > DecimalMaxScale THEN Panic
    ELSE Ok(Normal(acct.price.coef, acct.price.exp + acct.exponent))

---------------------------------------------------------------------------
\* get_price

\* if let Ok(p) = load_..(..) { prices[priority as usize] = Some(p) }
\*   prices is 1-indexed here: prices[i] of the code is prices[i + 1].
\*   An index >= prices.len() panics; Err leaves prices as it is.
AssignPrice(prices, priority, loaded) ==
    IF loaded.tag = "Panic" THEN Panic
    ELSE IF loaded.tag = "Err" THEN Ok(prices)
    ELSE IF priority >= PricesLen THEN Panic
    ELSE Ok([prices EXCEPT ![priority + 1] = Some(loaded.value)])

RECURSIVE LastFrom(_, _)
LastFrom(prices, i) ==
    IF i < 1 THEN None
    ELSE IF prices[i].tag = "Some" THEN prices[i]
    ELSE LastFrom(prices, i - 1)

\* the slots scanned from the highest index down
LastAvailable(prices) == LastFrom(prices, Len(prices))

RECURSIVE FirstFrom(_, _)
FirstFrom(prices, i) ==
    IF i > Len(prices) THEN None
    ELSE IF prices[i].tag = "Some" THEN prices[i]
    ELSE FirstFrom(prices, i + 1)

\* prices.iter().flatten().next()
FirstAvailable(prices) == FirstFrom(prices, 1)

\* the price written without the timestamp
StorePriceOnly(info, compact, now) ==
    [info EXCEPT !.recent_price = compact]

\* oracle_info.recent_price = price.to_account();
\* oracle_info.last_update = clock.unix_timestamp as u64;
StorePrice(info, compact, now) ==
    [info EXCEPT !.recent_price = compact, !.last_update = now]

\* pub fn get_price(ctx: Context<GetPrice>) -> Result<()>
\*   the outcome [result, info]: a panic aborts the instruction and the
\*   account keeps its contents.
get_price(info, now, pyth_acct, sb_acct) ==
    LET prices0 == [i \in 1..PricesLen |-> None]
        afterPyth ==
            IF info.priority_pyth >= 0
            THEN AssignPrice(prices0, info.priority_pyth,
                             load_pyth(pyth_acct, info.oracle_pyth, now))
            ELSE Ok(prices0)
        afterSb ==
            IF afterPyth.tag = "Panic" THEN Panic
            ELSE IF info.priority_switchboard >= 0
            THEN AssignPrice(afterPyth.value, info.priority_switchboard,
                             load_switchboard(sb_acct))
            ELSE afterPyth
    IN  IF afterSb.tag = "Panic" THEN [result |-> "Panic", info |-> info]
        ELSE LET price == FirstAvailable(afterSb.value)
             IN  IF price.tag = "Some"
                 THEN LET compact == to_account(price.value)
                      IN  IF compact.tag = "Panic"
                          THEN [result |-> "Panic", info |-> info]
                          ELSE [result |-> "Ok",
                                info |-> StorePrice(info, compact.value, now)]
                 ELSE [result |-> "NoPriceAvailable", info |-> info]

---------------------------------------------------------------------------
\* Inputs

\* vault_type keys and names given to initialize
VaultKeys == {1, 2}
VaultNames == {"SOL"}
\* feed identifiers given to update_oracles (0 is [0u8; 32] / Pubkey::default())
PythIdArgs == {0, 1}
SwitchboardKeyArgs == {0, 1}
\* ranks given to update_priority
RankArgs == (-MaxDisabledArg)..MaxRankArg

\* the (price, exponent) pairs of the Pyth messages handed to get_price, the
\* i64 price as [coef, exp]: 0.00000005, 800000000000, -0.00000001, and 5
\* with the positive exponent 1
PythQuotes ==
    {[price |-> [coef |-> 5, exp |-> 0], exponent |-> -8],
     [price |-> [coef |-> 8, exp |-> 11], exponent |-> 0],
     [price |-> [coef |-> -1, exp |-> 0], exponent |-> -8],
     [price |-> [coef |-> 5, exp |-> 0], exponent |-> 1]}
\* the feed the Pyth accounts handed to get_price carry
PythFeeds == {1}
\* the accounts handed to get_price as pyth_price_info: PriceUpdateV2
\* accounts, and an account that is not one (another owner or discriminator)
PythAccounts ==
    {[kind |-> "price_update", feed_id |-> f, publish_time |-> 0,
      price |-> q.price, exponent |-> q.exponent] :
        f \in PythFeeds, q \in PythQuotes}
    \cup {[kind |-> "other"]}

\* the values of the Switchboard feeds handed to get_price: 7 and 100000000000
SwitchboardValues == {[coef |-> 7, exp |-> 0], [coef |-> 1, exp |-> 11]}
SwitchboardAccounts ==
    {[kind |-> "unparsable"], [kind |-> "empty"]}
        \cup {[kind |-> "feed", value |-> v] : v \in SwitchboardValues}

\* the times the clock takes after 0
ClockTimes == {MAXIMUM_AGE, MaxClock}

---------------------------------------------------------------------------
\* The account and the instructions

\* the account before Initialize creates it (no data)
NoAccount ==
    [vault_type |-> 0, oracle_pyth |-> 0, oracle_switchboard |-> 0,
     priority_pyth |-> 0, priority_switchboard |-> 0, vault_type_name |-> "",
     recent_price |-> Zero, last_update |-> 0]

NoCall == [op |-> "none", result |-> "Ok", args |-> <<>>]

Init ==
    /\ created = FALSE
    /\ oracle_info = NoAccount
    /\ clock = 0
    /\ last = NoCall
    /\ pre = NoAccount

\* both sources left at rank 0 (the zeroed account) instead of disabled
InitializeRanksZero(key, name) ==
    [vault_type |-> key, oracle_pyth |-> 0, oracle_switchboard |-> 0,
     priority_pyth |-> 0, priority_switchboard |-> 0, vault_type_name |-> name,
     recent_price |-> Zero, last_update |-> 0]

\* pub fn initialize(ctx, vault_type_name): the account's contents
initialize(key, name) ==
    [vault_type |-> key, oracle_pyth |-> 0, oracle_switchboard |-> 0,
     priority_pyth |-> -1, priority_switchboard |-> -1, vault_type_name |-> name,
     recent_price |-> Zero, last_update |-> 0]

\* Initialize: #[account(init, ..)] creates the account, and fails on one
\* that exists already
Initialize(key, name) ==
    /\ pre' = oracle_info
    /\ IF created
       THEN /\ last' = [op |-> "initialize", result |-> "AccountInUse",
                        args |-> [key |-> key, name |-> name]]
            /\ UNCHANGED <<created, oracle_info>>
       ELSE /\ created' = TRUE
            /\ oracle_info' = initialize(key, name)
            /\ last' = [op |-> "initialize", result |-> "Ok",
                        args |-> [key |-> key, name |-> name]]
    /\ UNCHANGED clock

\* the stored price cleared when the ranks change
UpdatePriorityClearsPrice(info, pyth_priority, switchboard_priority) ==
    IF ~check_oracle_priorities(pyth_priority, switchboard_priority)
    THEN [result |-> "InvalidPriorities", info |-> info]
    ELSE [result |-> "Ok",
          info |-> [info EXCEPT !.priority_pyth = pyth_priority,
                                !.priority_switchboard = switchboard_priority,
                                !.recent_price = Zero,
                                !.last_update = 0]]

\* the Pyth rank written before the pair is validated
UpdatePriorityWriteFirst(info, pyth_priority, switchboard_priority) ==
    IF ~check_oracle_priorities(pyth_priority, switchboard_priority)
    THEN [result |-> "InvalidPriorities",
          info |-> [info EXCEPT !.priority_pyth = pyth_priority]]
    ELSE [result |-> "Ok",
          info |-> [info EXCEPT !.priority_pyth = pyth_priority,
                                !.priority_switchboard = switchboard_priority]]

\* the pair written without validation
UpdatePriorityUnchecked(info, pyth_priority, switchboard_priority) ==
    [result |-> "Ok",
     info |-> [info EXCEPT !.priority_pyth = pyth_priority,
                           !.priority_switchboard = switchboard_priority]]

\* pub fn update_priority(ctx, pyth_priority, switchboard_priority): [result, info]
update_priority(info, pyth_priority, switchboard_priority) ==
    IF ~check_oracle_priorities(pyth_priority, switchboard_priority)
    THEN [result |-> "InvalidPriorities", info |-> info]
    ELSE [result |-> "Ok",
          info |-> [info EXCEPT !.priority_pyth = pyth_priority,
                                !.priority_switchboard = switchboard_priority]]

UpdatePriority(p, s) ==
    /\ created
    /\ LET out == update_priority(oracle_info, p, s)
       IN  /\ oracle_info' = out.info
           /\ last' = [op |-> "update_priority", result |-> out.result,
                       args |-> [pyth |-> p, switchboard |-> s]]
    /\ pre' = oracle_info
    /\ UNCHANGED <<created, clock>>

\* the timestamp reset when the sources change
UpdateOraclesResetsTimestamp(info, pyth_oracle, switchboard_oracle) ==
    [info EXCEPT !.oracle_pyth = pyth_oracle,
                 !.oracle_switchboard = switchboard_oracle,
                 !.last_update = 0]

\* pub fn update_oracles(ctx, pyth_oracle, switchboard_oracle): the account after
update_oracles(info, pyth_oracle, switchboard_oracle) ==
    [info EXCEPT !.oracle_pyth = pyth_oracle,
                 !.oracle_switchboard = switchboard_oracle]

UpdateOracles(po, so) ==
    /\ created
    /\ oracle_info' = update_oracles(oracle_info, po, so)
    /\ last' = [op |-> "update_oracles", result |-> "Ok",
                args |-> [pyth |-> po, switchboard |-> so]]
    /\ pre' = oracle_info
    /\ UNCHANGED <<created, clock>>

\* pub pyth_price_info: Account<'info, PriceUpdateV2>: the account is
\* deserialized before the handler runs, and the instruction fails on an
\* account that is not a PriceUpdateV2; switchboard_feed_info is an unchecked
\* AccountInfo.
GetPriceAccounts(pa, sa) == pa.kind = "price_update"

\* the get_price instruction: account validation, then the handler
GetPriceOutcome(info, now, pa, sa) ==
    IF GetPriceAccounts(pa, sa)
    THEN get_price(info, now, pa, sa)
    ELSE [result |-> "AccountInvalid", info |-> info]

\* `again` records that the instruction before this one was a successful
\* get_price on the same two accounts
GetPrice(pa, sa) ==
    /\ created
    /\ LET out == GetPriceOutcome(oracle_info, clock, pa, sa)
       IN  /\ oracle_info' = out.info
           /\ last' = [op |-> "get_price", result |-> out.result,
                       args |-> [pyth |-> pa, switchboard |-> sa, now |-> clock],
                       again |-> /\ last.op = "get_price"
                                 /\ last.result = "Ok"
                                 /\ last.args.pyth = pa
                                 /\ last.args.switchboard = sa]
    /\ pre' = oracle_info
    /\ UNCHANGED <<created, clock>>

\* time passes between instructions
Tick(t) ==
    /\ t > clock
    /\ clock' = t
    /\ UNCHANGED <<created, oracle_info, last, pre>>

Next ==
    \/ \E k \in VaultKeys, n \in VaultNames : Initialize(k, n)
    \/ \E p \in RankArgs, s \in RankArgs : UpdatePriority(p, s)
    \/ \E po \in PythIdArgs, so \in SwitchboardKeyArgs : UpdateOracles(po, so)
    \/ \E pa \in PythAccounts, sa \in SwitchboardAccounts : GetPrice(pa, sa)
    \/ \E t \in ClockTimes : Tick(t)

Spec == Init /\ [][Next]_vars

---------------------------------------------------------------------------
\* check_oracle_priorities on every pair of i8 ranks

InitCheck ==
    /\ created = FALSE
    /\ oracle_info = NoAccount
    /\ clock = 0
    /\ pre = NoAccount
    /\ \E a \in I8, b \in I8 :
          last = [op |-> "input", result |-> FALSE,
                  args |-> [pyth |-> a, switchboard |-> b]]

CheckPriorities ==
    /\ last.op = "input"
    /\ last' = [op |-> "check_oracle_priorities",
                result |-> check_oracle_priorities(last.args.pyth, last.args.switchboard),
                args |-> last.args]
    /\ UNCHANGED <<created, oracle_info, clock, pre>>

NextCheck == CheckPriorities

SpecCheck == InitCheck /\ [][NextCheck]_vars

---------------------------------------------------------------------------
\* to_account followed by from_account on a range of decimals

\* the non-negative decimals c * 10^e tried
RoundTripInputs ==
    {Normal(c, e) : c \in 0..MaxCoefArg, e \in (-DecimalMaxScale)..MaxExpArg}

InitRoundTrip ==
    /\ created = FALSE
    /\ oracle_info = NoAccount
    /\ clock = 0
    /\ pre = NoAccount
    /\ \E x \in RoundTripInputs :
          last = [op |-> "input", result |-> "Ok", args |-> [x |-> x]]

ToAccount ==
    /\ last.op = "input"
    /\ LET a == to_account(last.args.x)
       IN  last' = [op |-> "to_account", result |-> a.tag,
                    args |-> [x |-> last.args.x, compact |-> a]]
    /\ UNCHANGED <<created, oracle_info, clock, pre>>

FromAccount ==
    /\ last.op = "to_account"
    /\ last.result = "Ok"
    /\ LET d == from_account(last.args.compact.value)
       IN  last' = [op |-> "from_account", result |-> d.tag,
                    args |-> [x |-> last.args.x, compact |-> last.args.compact,
                              back |-> d]]
    /\ UNCHANGED <<created, oracle_info, clock, pre>>

NextRoundTrip == ToAccount \/ FromAccount

SpecRoundTrip == InitRoundTrip /\ [][NextRoundTrip]_vars

---------------------------------------------------------------------------
\* The last get_price call, as the caller sees it

GetPriceCalled == last.op = "get_price"

PythEnabled == pre.priority_pyth >= 0
SwitchboardEnabled == pre.priority_switchboard >= 0

\* the Source-A account is a PriceUpdateV2 account
PythWellFormed == last.args.pyth.kind = "price_update"

\* what the Source-A reader returned (on an account that is a PriceUpdateV2)
PythFetch ==
    IF PythWellFormed
    THEN load_pyth(last.args.pyth, pre.oracle_pyth, last.args.now)
    ELSE [tag |-> "NotRead"]
PythPresent == PythFetch.tag = "Ok"
PythFailed == PythFetch.tag = "Err"

\* the Source-B account: a feed with a value, or a blob the reader fails on
SwitchboardPresent == last.args.switchboard.kind = "feed"
SwitchboardFailed == last.args.switchboard.kind \in {"unparsable", "empty"}

\* the readings of the enabled sources, each with its rank
Candidates ==
    (IF PythEnabled /\ PythPresent
     THEN {[source |-> "pyth", rank |-> pre.priority_pyth, value |-> PythFetch.value]}
     ELSE {})
    \cup
    (IF SwitchboardEnabled /\ SwitchboardPresent
     THEN {[source |-> "switchboard", rank |-> pre.priority_switchboard,
            value |-> last.args.switchboard.value]}
     ELSE {})

\* the candidate of the lowest rank
Best == CHOOSE c \in Candidates : \A d \in Candidates : c.rank <= d.rank

\* x * 10^18 is a non-negative integer within the decimal type
Convertible(x) == x.coef >= 0 /\ FitsMantissa(x.coef, x.exp + WadDigits)

\* every enabled rank is an index of the code's two-slot array
RanksWithinSlots ==
    pre.priority_pyth < PricesLen /\ pre.priority_switchboard < PricesLen

RecordUnchanged == oracle_info = pre

---------------------------------------------------------------------------
\* Claims

\* C1: a successful get_price stores the reading of the enabled source of the
\* lowest rank among the enabled sources whose reading is present; the stored
\* value is a function of the ranks and the readings alone.
C1_LowestRankStored ==
    (GetPriceCalled /\ last.result = "Ok") =>
        /\ Candidates # {}
        /\ to_account(Best.value) = Ok(oracle_info.recent_price)

\* rank(A) = 1, rank(B) = 0, both readings present and different: B's is stored
C1_Witness ==
    /\ GetPriceCalled /\ last.result = "Ok"
    /\ pre.priority_pyth = 1 /\ pre.priority_switchboard = 0
    /\ PythPresent /\ SwitchboardPresent
    /\ PythFetch.value # last.args.switchboard.value
    /\ Convertible(PythFetch.value)
    /\ to_account(last.args.switchboard.value) = Ok(oracle_info.recent_price)
    /\ to_account(PythFetch.value) # Ok(oracle_info.recent_price)

\* what validation is specified to accept
ValidRanks(a, b) ==
    /\ a >= 0 \/ b >= 0
    /\ a >= 0 => a \in 0..2
    /\ b >= 0 => b \in 0..2
    /\ ~(a >= 0 /\ b >= 0 /\ a = b)

\* C2: check_oracle_priorities is true exactly when at least one rank is
\* enabled, every enabled rank is in [0, 2] and the ranks are not both enabled
\* and equal, for every pair of i8 ranks; false for (-1,-1), (0,0), (3,-1),
\* true for (0,1), (-1,2).
C2_ValidationExact ==
    last.op = "check_oracle_priorities" =>
        LET a == last.args.pyth
            b == last.args.switchboard
        IN  /\ last.result = ValidRanks(a, b)
            /\ (<<a, b>> \in {<<-1, -1>>, <<0, 0>>, <<3, -1>>}) => last.result = FALSE
            /\ (<<a, b>> \in {<<0, 1>>, <<-1, 2>>}) => last.result = TRUE

C2_Witness ==
    /\ last.op = "check_oracle_priorities"
    /\ last.args = [pyth |-> -1, switchboard |-> 2]
    /\ last.result = TRUE

\* C3: update_priority with a pair that fails validation returns
\* InvalidPriorities and leaves every field of the record as it was; with a
\* valid pair it writes both ranks.
C3_UpdatePriorityAllOrNothing ==
    last.op = "update_priority" =>
        IF check_oracle_priorities(last.args.pyth, last.args.switchboard)
        THEN /\ last.result = "Ok"
             /\ oracle_info.priority_pyth = last.args.pyth
             /\ oracle_info.priority_switchboard = last.args.switchboard
        ELSE /\ last.result = "InvalidPriorities"
             /\ RecordUnchanged

\* a rejected pair whose ranks both differ from the stored ones
C3_Witness ==
    /\ last.op = "update_priority"
    /\ last.result = "InvalidPriorities"
    /\ last.args = [pyth |-> 0, switchboard |-> 0]
    /\ pre.priority_pyth = 1 /\ pre.priority_switchboard = 2
    /\ RecordUnchanged

\* C4: in every state of the record the two sources never hold the same
\* enabled rank, and every enabled rank is in [0, 2].
C4_RanksDistinctAndInRange ==
    created =>
        /\ oracle_info.priority_pyth >= 0 => oracle_info.priority_pyth \in 0..2
        /\ oracle_info.priority_switchboard >= 0 =>
               oracle_info.priority_switchboard \in 0..2
        /\ ~(/\ oracle_info.priority_pyth >= 0
              /\ oracle_info.priority_switchboard >= 0
              /\ oracle_info.priority_pyth = oracle_info.priority_switchboard)

\* both sources enabled, after an update, a source update and a resolution
C4_Witness ==
    /\ created
    /\ oracle_info.priority_pyth = 2 /\ oracle_info.priority_switchboard = 0
    /\ oracle_info.oracle_pyth = 1
    /\ oracle_info.last_update > 0

\* C5: both sources enabled, the higher-priority source's fetch fails and the
\* lower-priority source's succeeds: get_price succeeds and stores the
\* lower-priority source's value, whichever source is the failing one.
\* (Taken on the ranks 0 and 1 and on readings that convert.)
C5_FallbackClaim ==
    (/\ GetPriceCalled
     /\ PythEnabled /\ SwitchboardEnabled /\ RanksWithinSlots
     /\ \/ /\ pre.priority_pyth < pre.priority_switchboard
           /\ PythFailed /\ SwitchboardPresent
        \/ /\ pre.priority_switchboard < pre.priority_pyth
           /\ SwitchboardFailed /\ PythPresent
     /\ Convertible(Best.value))
    => /\ last.result = "Ok"
       /\ to_account(Best.value) = Ok(oracle_info.recent_price)

\* C6: a failure of either source reader never aborts get_price by itself:
\* when some enabled reader fails, get_price ends NoPriceAvailable if no
\* enabled source yielded a reading and succeeds otherwise.
\* (Taken on the ranks 0 and 1, on readings that convert, and on Source-A
\* messages the reader either returns or rejects.)
C6_ReaderFailureClaim ==
    (/\ GetPriceCalled
     /\ RanksWithinSlots
     /\ PythWellFormed
     /\ PythEnabled => (PythFailed \/ PythPresent)
     /\ (PythEnabled /\ PythFailed) \/ (SwitchboardEnabled /\ SwitchboardFailed)
     /\ Candidates # {} => Convertible(Best.value))
    => IF Candidates = {}
       THEN last.result = "NoPriceAvailable"
       ELSE last.result = "Ok"

\* C7: both sources enabled and both fetches fail: get_price returns
\* NoPriceAvailable and recent_price and last_update are as before the call.
C7_TotalFailureClaim ==
    (/\ GetPriceCalled
     /\ PythEnabled /\ SwitchboardEnabled
     /\ PythFailed /\ SwitchboardFailed)
    => /\ last.result = "NoPriceAvailable"
       /\ oracle_info.recent_price = pre.recent_price
       /\ oracle_info.last_update = pre.last_update

\* C8: a get_price call writes recent_price and last_update together (the
\* price of this resolution with the time of this resolution) or changes
\* nothing; update_priority writes both ranks or nothing; update_oracles
\* writes both identifiers.
C8_NoPartialUpdate ==
    /\ GetPriceCalled =>
          IF last.result = "Ok"
          THEN /\ Candidates # {}
               /\ to_account(Best.value) = Ok(oracle_info.recent_price)
               /\ oracle_info =
                     [pre EXCEPT !.recent_price = oracle_info.recent_price,
                                 !.last_update = last.args.now]
          ELSE RecordUnchanged
    /\ last.op = "update_priority" =>
          IF last.result = "Ok"
          THEN oracle_info =
                 [pre EXCEPT !.priority_pyth = last.args.pyth,
                             !.priority_switchboard = last.args.switchboard]
          ELSE RecordUnchanged
    /\ last.op = "update_oracles" =>
          oracle_info = [pre EXCEPT !.oracle_pyth = last.args.pyth,
                                    !.oracle_switchboard = last.args.switchboard]

\* a resolution that replaces an earlier one: new price and later time
C8_Witness ==
    /\ GetPriceCalled /\ last.result = "Ok"
    /\ pre.last_update < last.args.now
    /\ pre.recent_price # Zero
    /\ oracle_info.recent_price # pre.recent_price
    /\ oracle_info.last_update = last.args.now

\* C9: when the selected reading times 10^18 exceeds the decimal type, the
\* conversion fails with OverflowError, get_price fails, and recent_price and
\* last_update are unchanged.  (Taken on the ranks 0 and 1.)
C9_OverflowErrorClaim ==
    (/\ GetPriceCalled
     /\ RanksWithinSlots
     /\ PythWellFormed
     /\ PythEnabled => (PythFailed \/ PythPresent)
     /\ SwitchboardEnabled => SwitchboardPresent
     /\ Candidates # {}
     /\ Best.value.coef >= 0
     /\ ~FitsMantissa(Best.value.coef, Best.value.exp + WadDigits))
    => /\ last.result = "OverflowError"
       /\ oracle_info.recent_price = pre.recent_price
       /\ oracle_info.last_update = pre.last_update

\* C10 as stated: from_account(to_account(x)) = x for every non-negative
\* decimal x whose product with 10^18 is within the decimal type.
C10_RoundTripClaim ==
    last.op = "from_account" => last.args.back = Ok(last.args.x)

\* C10 as amended: from_account(to_account(x)) = x for every non-negative
\* decimal x of at most 18 fractional digits whose product with 10^18 is
\* within the decimal type.
C10_RoundTripWithin18Digits ==
    (last.op = "from_account" /\ last.args.x.exp >= -WadDigits) =>
        last.args.back = Ok(last.args.x)

\* 0.000000000000000007 goes to 7 and comes back
C10_Witness ==
    /\ last.op = "from_account"
    /\ last.args.x = [coef |-> 7, exp |-> -18]
    /\ last.args.compact = Ok([coef |-> 7, exp |-> 0])
    /\ last.args.back = Ok(last.args.x)

\* C11: initialize produces a record whose two ranks are -1, whose two source
\* identifiers are all-zero, whose recent_price and last_update are 0, and
\* whose asset-class key is the supplied key.
C11_InitializeDefaults ==
    (last.op = "initialize" /\ last.result = "Ok") =>
        /\ created
        /\ oracle_info.priority_pyth = -1
        /\ oracle_info.priority_switchboard = -1
        /\ oracle_info.oracle_pyth = 0
        /\ oracle_info.oracle_switchboard = 0
        /\ oracle_info.recent_price = Zero
        /\ oracle_info.last_update = 0
        /\ oracle_info.vault_type = last.args.key

\* the record created for the key 2
C11_Witness ==
    /\ last.op = "initialize" /\ last.result = "Ok"
    /\ last.args.key = 2
    /\ oracle_info.vault_type = 2
    /\ oracle_info.priority_pyth = -1 /\ oracle_info.priority_switchboard = -1

\* C12: update_priority changes only the two ranks, update_oracles changes
\* only the two source identifiers, and no instruction after initialize
\* changes the asset-class key.
C12_FrameOfUpdates ==
    /\ last.op = "update_priority" =>
          oracle_info =
              [pre EXCEPT !.priority_pyth = oracle_info.priority_pyth,
                          !.priority_switchboard = oracle_info.priority_switchboard]
    /\ last.op = "update_oracles" =>
          oracle_info =
              [pre EXCEPT !.oracle_pyth = oracle_info.oracle_pyth,
                          !.oracle_switchboard = oracle_info.oracle_switchboard]
    /\ (\/ last.op \in {"update_priority", "update_oracles", "get_price"}
        \/ (last.op = "initialize" /\ last.result # "Ok")) =>
          oracle_info.vault_type = pre.vault_type

\* an update_priority that changes both ranks of a record holding a price,
\* identifiers and the key 2
C12_Witness ==
    /\ last.op = "update_priority" /\ last.result = "Ok"
    /\ pre.recent_price # Zero /\ pre.last_update > 0
    /\ pre.oracle_pyth = 1 /\ pre.oracle_switchboard = 1
    /\ pre.vault_type = 2
    /\ oracle_info.priority_pyth # pre.priority_pyth
    /\ oracle_info.priority_switchboard # pre.priority_switchboard
    /\ oracle_info.recent_price = pre.recent_price
    /\ oracle_info.last_update = pre.last_update
    /\ oracle_info.oracle_pyth = 1 /\ oracle_info.oracle_switchboard = 1
    /\ oracle_info.vault_type = 2

\* what the Source-A reader returned in the call before, made at the time
\* the record holds
PythFetchBefore ==
    IF PythWellFormed
    THEN load_pyth(last.args.pyth, pre.oracle_pyth, pre.last_update)
    ELSE [tag |-> "NotRead"]

\* the last two instructions were successful get_price calls on the same
\* accounts, with the same readings, the second at a later time
ResolvedAgain ==
    /\ GetPriceCalled /\ last.result = "Ok"
    /\ last.again
    /\ last.args.now > pre.last_update
    /\ PythEnabled => PythFetch = PythFetchBefore

\* C13: two consecutive successful get_price calls with the same
\* configuration and the same readings, the second at a later clock value,
\* leave recent_price equal and set last_update to the later clock value.
C13_ResolveAgain ==
    ResolvedAgain =>
        /\ oracle_info.recent_price = pre.recent_price
        /\ oracle_info.last_update = last.args.now

\* the Pyth reading resolved at 0 and again at 30
C13_Witness ==
    /\ ResolvedAgain
    /\ PythEnabled /\ PythPresent
    /\ Best.source = "pyth"
    /\ pre.last_update = 0 /\ last.args.now = MAXIMUM_AGE
    /\ oracle_info.recent_price = pre.recent_price
    /\ oracle_info.recent_price # Zero
    /\ oracle_info.last_update = MAXIMUM_AGE

AnyEnabled(info) == info.priority_pyth >= 0 \/ info.priority_switchboard >= 0

\* C14 as stated: in every reachable state of the record at least one of the
\* two source slots is enabled.
C14_AlwaysOneEnabledClaim ==
    created => AnyEnabled(oracle_info)

\* C14 as amended: from initialize until the first successful
\* update_priority both slots are disabled (-1, -1); every successful
\* update_priority leaves at least one slot enabled, and from then on at
\* least one slot is enabled in every state.
C14_OneEnabledAfterFirstUpdate ==
    created =>
        /\ \/ AnyEnabled(oracle_info)
           \/ (oracle_info.priority_pyth = -1 /\ oracle_info.priority_switchboard = -1)
        /\ (last.op = "update_priority" /\ last.result = "Ok") =>
               AnyEnabled(oracle_info)
        /\ (/\ last.op \in {"update_priority", "update_oracles", "get_price"}
            /\ AnyEnabled(pre)) => AnyEnabled(oracle_info)

\* disabling both sources of a record that has one enabled is refused
C14_Witness ==
    /\ last.op = "update_priority"
    /\ last.args = [pyth |-> -1, switchboard |-> -1]
    /\ last.result = "InvalidPriorities"
    /\ AnyEnabled(pre)
    /\ AnyEnabled(oracle_info)

\* C15: for every configuration validation accepts (rank 2 included) the
\* rank get_price uses as an index is within its slot array, so get_price
\* never faults on an out-of-range slot: when every enabled source's account
\* is read without failure and the reading of lowest rank converts,
\* get_price succeeds.
C15_RankIndexInBoundsClaim ==
    (/\ GetPriceCalled
     /\ PythWellFormed
     /\ PythEnabled => (PythFailed \/ PythPresent)
     /\ SwitchboardEnabled => SwitchboardPresent
     /\ Candidates # {}
     /\ Convertible(Best.value))
    => last.result = "Ok"

\* C16: a disabled source is never read and contributes no candidate: the
\* outcome of get_price (its result and the record it leaves) is the same
\* whatever account is handed in for a disabled source.
C16_DisabledSourceIgnoredClaim ==
    GetPriceCalled =>
        LET got == [result |-> last.result, info |-> oracle_info]
        IN  /\ ~PythEnabled =>
                  \A pa \in PythAccounts :
                      GetPriceOutcome(pre, last.args.now, pa, last.args.switchboard) = got
            /\ ~SwitchboardEnabled =>
                  \A sa \in SwitchboardAccounts :
                      GetPriceOutcome(pre, last.args.now, last.args.pyth, sa) = got

\* the Source-A message is of the configured feed and not older than
\* MAXIMUM_AGE: the reader returns its (price, exponent) pair
PythMessageReturned ==
    /\ PythWellFormed
    /\ last.args.pyth.feed_id = pre.oracle_pyth
    /\ last.args.pyth.publish_time + MAXIMUM_AGE >= last.args.now

\* C17: the (mantissa, exponent) pair the Source-A reader returns is
\* converted to the decimal mantissa * 10^(-exponent) for every exponent the
\* reader can return (negative, zero or positive), without faulting.
C17_PythConversionClaim ==
    (GetPriceCalled /\ PythEnabled /\ PythMessageReturned) =>
        /\ PythFetch.tag = "Ok"
        /\ PythFetch.value =
              Normal(last.args.pyth.price.coef,
                     last.args.pyth.price.exp - last.args.pyth.exponent)

\* C18: after initialize and until the first successful update_priority
\* (both ranks still disabled) every get_price call fails with
\* NoPriceAvailable whatever the two source accounts contain, and
\* recent_price and last_update stay 0.
C18_NoPriceBeforeFirstUpdateClaim ==
    /\ (GetPriceCalled /\ ~PythEnabled /\ ~SwitchboardEnabled) =>
          last.result = "NoPriceAvailable"
    /\ (created /\ ~AnyEnabled(oracle_info)) =>
          (oracle_info.recent_price = Zero /\ oracle_info.last_update = 0)

\* C19: with a clock that is non-negative and never goes back, last_update
\* never decreases, changes only in a successful get_price, and after a
\* successful get_price equals the clock value read in that call.
C19_LastUpdateFollowsClock ==
    /\ clock >= 0
    /\ oracle_info.last_update <= clock
    /\ oracle_info.last_update >= pre.last_update
    /\ oracle_info.last_update # pre.last_update =>
          (GetPriceCalled /\ last.result = "Ok")
    /\ (GetPriceCalled /\ last.result = "Ok") =>
          (oracle_info.last_update = last.args.now /\ last.args.now <= clock)

\* a resolution at 30 replaced by one at the later clock value
C19_Witness ==
    /\ GetPriceCalled /\ last.result = "Ok"
    /\ pre.last_update = MAXIMUM_AGE
    /\ last.args.now > MAXIMUM_AGE
    /\ oracle_info.last_update = last.args.now

====
